---- MODULE Spec2Model ----
(***************************************************************************)
(* Model of flashcards.py: the card store (class Flashcards, a dict from   *)
(* term to Card), its command loop, the quiz, and the CSV file codec.      *)
(*                                                                         *)
(* A string is a sequence of one-character strings.  One action is one     *)
(* call of input(): the user answers the pending prompt and the program    *)
(* runs up to its next prompt (or to its end).                             *)
(***************************************************************************)
EXTENDS Integers, Sequences, FiniteSets, TLC

VARIABLES store, files, import_from, export_to, pc, term, number_of_times,
          rounds, cycle_pos, emitted, commands, typed, output, with_log,
          tally

vars == <<store, files, import_from, export_to, pc, term, number_of_times,
          rounds, cycle_pos, emitted, commands, typed, output, with_log,
          tally>>

(***************************************************************************)
(* Bounds of the model.                                                    *)
(***************************************************************************)
\* largest error_count a quiz round may still increment
MaxErr == 2
\* largest number of rounds the user asks for
MaxAsk == 3
\* number of commands the user gives before exit
MaxCommands == 3
\* largest number of entries of a transcript that is kept
MaxOutput == 12

(***************************************************************************)
(* Characters and strings.                                                 *)
(***************************************************************************)
QUOTE == "\""
COMMA == ","
LF == "\n"
CR == "\r"
SP == " "

Whitespace == {SP, LF, CR}

Digits == <<"0", "1", "2", "3", "4", "5", "6", "7", "8", "9">>

RECURSIVE LStrip(_)
LStrip(s) ==
    IF s # <<>> /\ Head(s) \in Whitespace THEN LStrip(Tail(s)) ELSE s

RECURSIVE RStrip(_)
RStrip(s) ==
    IF s # <<>> /\ s[Len(s)] \in Whitespace
    THEN RStrip(SubSeq(s, 1, Len(s) - 1))
    ELSE s

\* str.strip()
Strip(s) == RStrip(LStrip(s))

DigitValue(c) == (CHOOSE i \in 1..10 : Digits[i] = c) - 1

IsDigit(c) == \E i \in 1..10 : Digits[i] = c

RECURSIVE DigitsValue(_, _)
DigitsValue(s, acc) ==
    IF s = <<>> THEN acc
    ELSE DigitsValue(Tail(s), acc * 10 + DigitValue(Head(s)))

\* int(text) raises ValueError unless text is, inside surrounding
\* whitespace, an optional sign followed by at least one digit
IntOk(s) ==
    LET t == Strip(s)
        body == IF t # <<>> /\ Head(t) \in {"-", "+"} THEN Tail(t) ELSE t
    IN  body # <<>> /\ \A i \in 1..Len(body) : IsDigit(body[i])

\* int(text), for a text with IntOk
IntOf(s) ==
    LET t == Strip(s)
        neg == t # <<>> /\ Head(t) = "-"
        body == IF t # <<>> /\ Head(t) \in {"-", "+"} THEN Tail(t) ELSE t
        v == DigitsValue(body, 0)
    IN  IF neg THEN 0 - v ELSE v

RECURSIVE NatStr(_)
NatStr(n) ==
    IF n < 10 THEN <<Digits[n + 1]>>
    ELSE Append(NatStr(n \div 10), Digits[(n % 10) + 1])

\* str(n) of an int
IntStr(n) == IF n < 0 THEN <<"-">> \o NatStr(0 - n) ELSE NatStr(n)

(***************************************************************************)
(* csv.writer, excel dialect, onto a text file opened without newline="".  *)
(***************************************************************************)
\* a field is quoted when it holds the delimiter, the quote character or a
\* character of the line terminator
NeedsQuotes(s) ==
    \E i \in 1..Len(s) : s[i] \in {COMMA, QUOTE, CR, LF}

RECURSIVE DoubleQuotes(_)
DoubleQuotes(s) ==
    IF s = <<>> THEN <<>>
    ELSE (IF Head(s) = QUOTE THEN <<QUOTE, QUOTE>> ELSE <<Head(s)>>)
         \o DoubleQuotes(Tail(s))

\* a faulty WriteField: the quotes inside a quoted field are not doubled
WriteFieldPlainQuotes(s) ==
    IF NeedsQuotes(s) THEN <<QUOTE>> \o s \o <<QUOTE>> ELSE s

WriteField(s) ==
    IF NeedsQuotes(s) THEN <<QUOTE>> \o DoubleQuotes(s) \o <<QUOTE>> ELSE s

\* writerow((term, card.definition, card.error_count))
WriteRow(card) ==
    WriteField(card.term) \o <<COMMA>> \o WriteField(card.definition)
    \o <<COMMA>> \o WriteField(IntStr(card.error_count)) \o <<CR, LF>>

RECURSIVE WriteRows(_)
WriteRows(cards) ==
    IF cards = <<>> THEN <<>>
    ELSE WriteRow(Head(cards)) \o WriteRows(Tail(cards))

(***************************************************************************)
(* Reading: a text file opened without newline="" gives lines in universal *)
(* newline mode, csv.reader parses them, csv.DictReader names the fields.  *)
(***************************************************************************)
\* the positions of a sequence, in order
Positions(s) == [i \in 1..Len(s) |-> i]

\* "\r\n" and "\r" are read as "\n": the "\n" after a "\r" is dropped and
\* every "\r" becomes "\n"
UniversalNewlines(s) ==
    LET kept == SelectSeq(Positions(s),
                          LAMBDA i : ~(s[i] = LF /\ i > 1 /\ s[i - 1] = CR))
    IN  [k \in 1..Len(kept) |-> IF s[kept[k]] = CR THEN LF ELSE s[kept[k]]]

\* the lines a file iterator yields from cur \o s, each with its "\n" when
\* it has one
SplitLines(s, cur) ==
    LET text == cur \o s
        ends == SelectSeq(Positions(text),
                          LAMBDA i : text[i] = LF \/ i = Len(text))
    IN  [k \in 1..Len(ends) |->
           SubSeq(text, IF k = 1 THEN 1 ELSE ends[k - 1] + 1, ends[k])]

EOL == "EOL"

\* the parser: its state, the field being read, the fields of the record
ParserReset == [state |-> "START_RECORD", field |-> <<>>, fields |-> <<>>,
                error |-> FALSE]

SaveField(p, next) ==
    [p EXCEPT !.fields = Append(p.fields, p.field), !.field = <<>>,
              !.state = next]

AddChar(p, c, next) ==
    [p EXCEPT !.field = Append(p.field, c), !.state = next]

AfterNewline(c) == IF c = EOL THEN "START_RECORD" ELSE "EAT_CRNL"

StartField(p, c) ==
    IF c \in {LF, CR, EOL} THEN SaveField(p, AfterNewline(c))
    ELSE IF c = QUOTE THEN [p EXCEPT !.state = "IN_QUOTED_FIELD"]
    ELSE IF c = COMMA THEN SaveField(p, "START_FIELD")
    ELSE AddChar(p, c, "IN_FIELD")

\* parse_process_char
ProcessChar(p, c) ==
    IF p.error THEN p
    ELSE IF p.state = "START_RECORD"
    THEN IF c = EOL THEN p
         ELSE IF c \in {LF, CR} THEN [p EXCEPT !.state = "EAT_CRNL"]
         ELSE StartField(p, c)
    ELSE IF p.state = "START_FIELD" THEN StartField(p, c)
    ELSE IF p.state = "IN_FIELD"
    THEN IF c \in {LF, CR, EOL} THEN SaveField(p, AfterNewline(c))
         ELSE IF c = COMMA THEN SaveField(p, "START_FIELD")
         ELSE AddChar(p, c, "IN_FIELD")
    ELSE IF p.state = "IN_QUOTED_FIELD"
    THEN IF c = EOL THEN p
         ELSE IF c = QUOTE THEN [p EXCEPT !.state = "QUOTE_IN_QUOTED_FIELD"]
         ELSE AddChar(p, c, "IN_QUOTED_FIELD")
    ELSE IF p.state = "QUOTE_IN_QUOTED_FIELD"
    THEN IF c = QUOTE THEN AddChar(p, c, "IN_QUOTED_FIELD")
         ELSE IF c = COMMA THEN SaveField(p, "START_FIELD")
         ELSE IF c \in {LF, CR, EOL} THEN SaveField(p, AfterNewline(c))
         ELSE AddChar(p, c, "IN_FIELD")
    ELSE \* EAT_CRNL
         IF c \in {LF, CR} THEN p
         ELSE IF c = EOL THEN [p EXCEPT !.state = "START_RECORD"]
         ELSE [p EXCEPT !.error = TRUE]

\* parse_process_char for the characters line[lo], ..., line[hi] in order;
\* after an error nothing more is parsed (the range is halved so that a long
\* line is no deep recursion)
RECURSIVE ProcessChars(_, _, _, _)
ProcessChars(p, line, lo, hi) ==
    IF p.error \/ lo > hi THEN p
    ELSE IF lo = hi THEN ProcessChar(p, line[lo])
    ELSE LET mid == (lo + hi) \div 2
         IN  ProcessChars(ProcessChars(p, line, lo, mid), line, mid + 1, hi)

\* the characters of a line, then the end of the line
ProcessLine(p, line) == ProcessChar(ProcessChars(p, line, 1, Len(line)), EOL)

\* Reader.__next__ over the remaining lines: the rows of the file, in order
RECURSIVE ReadRows(_, _)
ReadRows(lines, p) ==
    IF lines = <<>>
    THEN IF p.field # <<>> \/ p.state = "IN_QUOTED_FIELD"
         THEN <<SaveField(p, "START_RECORD").fields>>
         ELSE <<>>
    ELSE LET q == ProcessLine(p, Head(lines))
         IN  IF q.state = "START_RECORD"
             THEN <<q.fields>> \o ReadRows(Tail(lines), ParserReset)
             ELSE ReadRows(Tail(lines), q)

\* DictReader.__next__ skips the empty rows
RECURSIVE SkipEmpty(_)
SkipEmpty(rows) ==
    IF rows = <<>> THEN <<>>
    ELSE IF Head(rows) = <<>> THEN SkipEmpty(Tail(rows))
    ELSE <<Head(rows)>> \o SkipEmpty(Tail(rows))

\* the records csv.DictReader(file, fieldnames=(...)) yields for a content
FileRows(content) ==
    SkipEmpty(ReadRows(SplitLines(UniversalNewlines(content), <<>>),
                       ParserReset))

(***************************************************************************)
(* The card store: class Flashcards(dict).  A dict keeps its keys in       *)
(* insertion order, so the store is the sequence of its items.             *)
(***************************************************************************)
\* Card(definition, error_count) under its key
Card(t, definition, error_count) ==
    [term |-> t, definition |-> definition, error_count |-> error_count]

HasTerm(s, t) == \E i \in 1..Len(s) : s[i].term = t

IndexOf(s, t) == CHOOSE i \in 1..Len(s) : s[i].term = t

\* Card.__eq__: a card equals a string that is its definition
CardEq(card, other) == card.definition = other

\* a faulty InKeys: the values are searched instead of the keys
InKeysSearchesValues(s, user_input) ==
    \E i \in 1..Len(s) : s[i].definition = user_input

\* user_input in self.keys()
InKeys(s, user_input) == HasTerm(s, user_input)

\* a faulty InValues: only the card added last is compared
InValuesLastOnly(s, user_input) ==
    s # <<>> /\ s[Len(s)].definition = user_input

\* user_input in self.values()
InValues(s, user_input) == \E i \in 1..Len(s) : CardEq(s[i], user_input)

\* a faulty SetItem: a new key goes first
SetItemFirst(s, card) ==
    IF \E i \in 1..Len(s) : s[i].term = card.term
    THEN [i \in 1..Len(s) |-> IF s[i].term = card.term THEN card ELSE s[i]]
    ELSE <<card>> \o s

\* self[t] = card: a new key goes last, an old key keeps its place
SetItem(s, card) ==
    IF HasTerm(s, card.term)
    THEN [s EXCEPT ![IndexOf(s, card.term)] = card]
    ELSE Append(s, card)

\* a faulty DelItem: the card after the key is dropped with it
DelItemAndNext(s, t) ==
    LET i == CHOOSE k \in 1..Len(s) : s[k].term = t
    IN  SubSeq(s, 1, i - 1) \o SubSeq(s, i + 2, Len(s))

\* del self[t], for a key of the store
DelItem(s, t) ==
    LET i == IndexOf(s, t)
    IN  SubSeq(s, 1, i - 1) \o SubSeq(s, i + 1, Len(s))

(***************************************************************************)
(* The transcript: log_message writes a message and its end, and           *)
(* get_user_input writes the prompt and then the stripped response.        *)
(***************************************************************************)
Entry(kind, args, num, end) ==
    [kind |-> kind, args |-> args, num |-> num, end |-> end]

\* log_message(message)
Message(kind, args, num) == Entry(kind, args, num, LF)

\* log_message(message, end="")
MessagePart(kind, args) == Entry(kind, args, 0, "")

\* the first half of get_user_input: the prompt is written
Prompt(kind, args) == Entry(kind, args, 0, LF)

\* the second half of get_user_input: the response is stripped and written
Response(user_input) == Entry("input", <<user_input>>, 0, LF)

MenuPrompt == Prompt("Input the action", <<>>)

\* the characters of a string literal
Chars(literal) == [i \in 1..Len(literal) |-> SubSeq(literal, i, i)]

\* ", ".join(f"{card}" for card in hardest_cards)
RECURSIVE Join(_)
Join(terms) ==
    IF terms = <<>> THEN <<>>
    ELSE IF Len(terms) = 1 THEN terms[1]
    ELSE terms[1] \o <<COMMA, SP>> \o Join(Tail(terms))

\* the f-string of an entry
Text(e) ==
    IF e.kind = "input" THEN e.args[1]
    ELSE IF e.kind = "Input the action"
    THEN Chars("Input the action (add, remove, import, export, ask, ")
         \o Chars("exit, log, hardest card, reset stats):")
    ELSE IF e.kind = "The card already exists. Try again:"
    THEN Chars("The card ") \o <<QUOTE>> \o e.args[1] \o <<QUOTE>>
         \o Chars(" already exists. Try again:")
    ELSE IF e.kind = "The definition already exists. Try again:"
    THEN Chars("The definition ") \o <<QUOTE>> \o e.args[1] \o <<QUOTE>>
         \o Chars(" already exists. Try again:")
    ELSE IF e.kind = "The pair has been added."
    THEN Chars("The pair (") \o <<QUOTE>> \o e.args[1] \o <<QUOTE, ":", QUOTE>>
         \o e.args[2] \o <<QUOTE>> \o Chars(") has been added.")
    ELSE IF e.kind = "Can't remove: there is no such card."
    THEN Chars("Can't remove ") \o <<QUOTE>> \o e.args[1] \o <<QUOTE>>
         \o Chars(": there is no such card.")
    ELSE IF e.kind \in {"cards have been loaded.", "cards have been saved."}
    THEN IntStr(e.num) \o <<SP>> \o Chars(e.kind)
    ELSE IF e.kind \in {"Wrong. The right answer is",
                        ", but your definition is correct for"}
    THEN Chars(e.kind) \o <<SP, QUOTE>> \o e.args[1] \o <<QUOTE>>
    ELSE IF e.kind = "Print the definition of"
    THEN Chars(e.kind) \o <<SP, QUOTE>> \o e.args[1] \o <<QUOTE, ":">>
    ELSE IF e.kind = "The hardest card is"
    THEN Chars(e.kind) \o <<SP, QUOTE>> \o e.args[1] \o <<QUOTE>>
         \o Chars(". You have ") \o IntStr(e.num)
         \o Chars(" errors answering it.")
    ELSE IF e.kind = "The hardest cards are"
    THEN Chars(e.kind) \o <<SP>> \o Join(e.args)
         \o Chars(". You have ") \o IntStr(e.num)
         \o Chars(" errors answering them.")
    ELSE Chars(e.kind)

\* output.getvalue(): each entry as written, f"{message}{end}"
RECURSIVE getvalue(_)
getvalue(out) ==
    IF out = <<>> THEN <<>>
    ELSE Text(Head(out)) \o Chars(Head(out).end) \o getvalue(Tail(out))

(***************************************************************************)
(* What the user types and what the file system holds at the start.        *)
(***************************************************************************)
CmdAdd == <<"a", "d", "d">>
CmdRemove == <<"r", "e", "m", "o", "v", "e">>
CmdImport == <<"i", "m", "p", "o", "r", "t">>
CmdExport == <<"e", "x", "p", "o", "r", "t">>
CmdAsk == <<"a", "s", "k">>
CmdExit == <<"e", "x", "i", "t">>
CmdHardest == <<"h", "a", "r", "d", "e", "s", "t", SP, "c", "a", "r", "d">>
CmdReset == <<"r", "e", "s", "e", "t", SP, "s", "t", "a", "t", "s">>
CmdLog == <<"l", "o", "g">>

\* the commands self.main_menu dispatches on
Commands == {CmdAdd, CmdRemove, CmdImport, CmdExport, CmdAsk, CmdExit,
             CmdLog, CmdHardest, CmdReset}

\* lines typed at the menu: the commands (log in the runs with_log), one
\* with blanks around it, and lines that are no command
MenuLines ==
    (IF with_log THEN Commands ELSE Commands \ {CmdLog})
    \cup {<<SP>> \o CmdAdd \o <<SP>>, <<"A", "d", "d">>, <<>>}

\* lines typed as a term, a definition or an answer
TextLines == {<<"a", SP>>, <<SP>>, <<QUOTE, COMMA>>}

\* lines typed as a file name
FileLines == {<<"f">>, <<>>}

\* lines typed as the number of rounds
AskLines == {IntStr(k) : k \in (0 - 1)..MaxAsk} \cup {<<"x">>}

\* the names open() can create or find
FileNames == {<<"f">>}

NoFile == [exists |-> FALSE, data |-> <<>>]

FileOf(data) == [exists |-> TRUE, data |-> data]

\* four records, an empty line among them, the last one repeating a term
FileCards ==
    <<"a", COMMA, "a", COMMA, "0", LF,
      COMMA, "a", COMMA, "2", LF,
      LF,
      QUOTE, QUOTE, QUOTE, COMMA, QUOTE, COMMA, "a", COMMA, "0", LF,
      "a", COMMA, COMMA, "1", LF>>

\* a negative count, and no newline at the end
FileNegative ==
    <<"a", COMMA, QUOTE, QUOTE, QUOTE, COMMA, QUOTE, COMMA, "-", "1", LF,
      COMMA, "a", COMMA, "0">>

\* a record of two fields after a good one
FileShort ==
    <<COMMA, "a", COMMA, "1", CR, LF, "a", COMMA, "a", LF>>

\* a count that is no integer
FileNotInt == <<"a", COMMA, "a", COMMA, "x", LF>>

\* blanks and a line break inside the fields
FileBlanks ==
    <<SP, "a", COMMA, QUOTE, "a", LF, QUOTE, COMMA, SP, "2", LF>>

InitialFiles ==
    {NoFile, FileOf(FileCards), FileOf(FileNegative), FileOf(FileShort),
     FileOf(FileNotInt), FileOf(FileBlanks)}

(***************************************************************************)
(* Flashcards.import_file and Flashcards.export_file.                      *)
(***************************************************************************)
\* open(filename, "r") raises FileNotFoundError
CannotRead(fs, filename) ==
    filename \notin DOMAIN fs \/ ~fs[filename].exists

\* open(filename, "w") raises FileNotFoundError (the empty name)
CannotWrite(fs, filename) == filename \notin DOMAIN fs

\* a faulty ImportRows: a record whose term is a key already is counted but
\* not stored
RECURSIVE ImportRowsKeepsFirst(_, _, _)
ImportRowsKeepsFirst(s, rows, n) ==
    IF rows = <<>> THEN [store |-> s, n |-> n, raised |-> FALSE]
    ELSE LET line == Head(rows)
         IN  IF Len(line) < 3 \/ ~IntOk(line[3])
             THEN [store |-> s, n |-> n, raised |-> TRUE]
             ELSE ImportRowsKeepsFirst(
                      IF HasTerm(s, line[1]) THEN s
                      ELSE SetItem(s, Card(line[1], line[2], IntOf(line[3]))),
                      Tail(rows), n + 1)

\* the loop over file_reader: a row with fewer than three fields has
\* "Error Count" None and int(None) raises, a count that is no integer makes
\* int raise; both leave the rows before it applied
RECURSIVE ImportRows(_, _, _)
ImportRows(s, rows, n) ==
    IF rows = <<>> THEN [store |-> s, n |-> n, raised |-> FALSE]
    ELSE LET line == Head(rows)
         IN  IF Len(line) < 3 \/ ~IntOk(line[3])
             THEN [store |-> s, n |-> n, raised |-> TRUE]
             ELSE ImportRows(SetItem(s, Card(line[1], line[2],
                                             IntOf(line[3]))),
                             Tail(rows), n + 1)

\* import_file(filename): the store afterwards, the messages, and whether an
\* exception left the function
import_file(s, fs, filename) ==
    IF CannotRead(fs, filename)
    THEN [store |-> s, msgs |-> <<Message("File not found.", <<>>, 0)>>,
          raised |-> FALSE]
    ELSE LET r == ImportRows(s, FileRows(fs[filename].data), 0)
         IN  [store |-> r.store,
              msgs |-> IF r.raised THEN <<>>
                       ELSE <<Message("cards have been loaded.", <<>>, r.n)>>,
              raised |-> r.raised]

\* export_file(filename), for a name that can be written
export_file(s, fs, filename) ==
    [files |-> [fs EXCEPT ![filename] = FileOf(WriteRows(s))],
     msgs |-> <<Message("cards have been saved.", <<>>, Len(s))>>]

\* a faulty save_log: the file is written after the confirmation is logged
save_log_after_message(out, fs, filename) ==
    LET msgs == <<Message("The log has been saved.", <<>>, 0)>>
    IN  [files |-> [fs EXCEPT ![filename] = FileOf(getvalue(out \o msgs))],
         msgs |-> msgs]

\* save_log after its prompt, for a name that can be written: out is the
\* transcript with the response to "File name:"
save_log(out, fs, filename) ==
    [files |-> [fs EXCEPT ![filename] = FileOf(getvalue(out))],
     msgs |-> <<Message("The log has been saved.", <<>>, 0)>>]

(***************************************************************************)
(* Flashcards.ask_user, Flashcards.hardest_card, Flashcards.reset_stats.   *)
(***************************************************************************)
\* a faulty CycleNext: after the last key the last key is given again
CycleNextStaysLast(pos, len) == IF pos < len THEN pos + 1 ELSE len

\* next(itertools.cycle(self)) after the key at pos: the keys in order, then
\* the saved keys again from the first
CycleNext(pos, len) == IF pos < len THEN pos + 1 ELSE 1

\* zip(range(n), itertools.cycle(self)) yields a first pair: range(n) has a
\* first number and the cycle over the keys has a first key
FirstPair(n, s) == 0 < n /\ s # <<>>

\* answer == self[card]
IsCorrect(s, pos, answer) == CardEq(s[pos], answer)

\* a faulty CountError: the count goes down
CountErrorDown(s, pos) == [s EXCEPT ![pos].error_count = @ - 1]

\* a faulty CountError: a wrong answer counts twice
CountErrorTwice(s, pos) == [s EXCEPT ![pos].error_count = @ + 2]

\* a faulty CountError: the count of the first card is incremented
CountErrorFirst(s, pos) == [s EXCEPT ![1].error_count = @ + 1]

\* self[card].error_count += 1
CountError(s, pos) == [s EXCEPT ![pos].error_count = @ + 1]

\* a faulty FirstOther: the scan does not stop at its first match
RECURSIVE LastOther(_, _, _, _)
LastOther(s, i, pos, answer) ==
    IF i > Len(s) THEN 0
    ELSE LET later == LastOther(s, i + 1, pos, answer)
         IN  IF later # 0 THEN later
             ELSE IF s[pos].term # s[i].term /\ CardEq(s[i], answer) THEN i
             ELSE 0

\* the scan "for other_card in self", from position i on: the position of the
\* first other card the answer is right for, 0 when the scan ends without one
RECURSIVE FirstOther(_, _, _, _)
FirstOther(s, i, pos, answer) ==
    IF i > Len(s) THEN 0
    ELSE IF s[pos].term # s[i].term /\ CardEq(s[i], answer) THEN i
    ELSE FirstOther(s, i + 1, pos, answer)

\* the messages of a round
RoundMessages(s, pos, answer) ==
    IF IsCorrect(s, pos, answer)
    THEN <<Message("Correct!", <<>>, 0)>>
    ELSE LET other == FirstOther(s, 1, pos, answer)
         IN  <<MessagePart("Wrong. The right answer is",
                           <<s[pos].definition>>)>>
             \o (IF other = 0 THEN <<>>
                 ELSE <<MessagePart(", but your definition is correct for",
                                    <<s[other].term>>)>>)
             \o <<Message(".", <<>>, 0)>>

AskPrompt(s, pos) == Prompt("Print the definition of", <<s[pos].term>>)

\* max(card.error_count for card in self.values()) of a store that has cards
RECURSIVE MaxOf(_)
MaxOf(s) ==
    IF Len(s) = 1 THEN s[1].error_count
    ELSE LET m == MaxOf(Tail(s))
         IN  IF s[1].error_count >= m THEN s[1].error_count ELSE m

max_error_count(s) == IF s # <<>> THEN MaxOf(s) ELSE 0

\* a faulty hardest_cards: the list is built back to front
RECURSIVE hardest_cards_reversed(_, _)
hardest_cards_reversed(s, m) ==
    IF s = <<>> THEN <<>>
    ELSE hardest_cards_reversed(Tail(s), m)
         \o (IF s[1].error_count = m THEN <<s[1].term>> ELSE <<>>)

\* [card for card in self if self[card].error_count == max_error_count]
RECURSIVE hardest_cards(_, _)
hardest_cards(s, m) ==
    IF s = <<>> THEN <<>>
    ELSE (IF s[1].error_count = m THEN <<s[1].term>> ELSE <<>>)
         \o hardest_cards(Tail(s), m)

\* the message of hardest_card
hardest_card(s) ==
    LET m == max_error_count(s)
        hardest == hardest_cards(s, m)
    IN  IF m = 0 THEN Message("There are no cards with errors.", <<>>, 0)
        ELSE IF Len(hardest) = 1
        THEN Message("The hardest card is", <<hardest[1]>>, m)
        ELSE Message("The hardest cards are", hardest, m)

\* a faulty reset_stats: the loop ends after the first card
reset_stats_first(s) ==
    [i \in 1..Len(s) |-> IF i = 1 THEN [s[i] EXCEPT !.error_count = 0] ELSE s[i]]

\* reset_stats: card.error_count = 0 for every card
reset_stats(s) == [i \in 1..Len(s) |-> [s[i] EXCEPT !.error_count = 0]]

(***************************************************************************)
(* The program.  pc is the prompt the program waits at.                    *)
(***************************************************************************)
Init ==
    /\ store = <<>>
    /\ files \in [FileNames -> InitialFiles]
    /\ import_from \in {<<>>, <<"f">>}
    /\ export_to \in {<<>>, <<"f">>}
    /\ pc = "start"
    /\ term = <<>>
    /\ number_of_times = 0
    /\ rounds = 0
    /\ cycle_pos = 0
    /\ emitted = <<>>
    /\ commands = 0
    /\ typed = <<>>
    /\ output = <<>>
    /\ with_log = FALSE
    /\ tally = <<>>

\* a faulty Truthy: no name counts as given
TruthyNever(name) == FALSE

\* "if self.import_from:", "if self.export_to:": the option was given and
\* is not the empty string
Truthy(name) == name # <<>>

\* a faulty Emit: the write starts at the beginning of the buffer
EmitRewinds(entries) ==
    /\ emitted' = entries
    /\ IF with_log
       THEN /\ Len(output) + Len(entries) <= MaxOutput
            /\ output' = entries
       ELSE output' = output

\* what one step writes to the transcript: output.write appends.  output is
\* read by save_log only, so it is kept in the runs whose user gives the
\* log command (with_log) and left out in the others
Emit(entries) ==
    /\ emitted' = entries
    /\ IF with_log
       THEN /\ Len(output) + Len(entries) <= MaxOutput
            /\ output' = output \o entries
       ELSE output' = output

\* a command has returned: main_menu is entered again and prompts
ToMenu(entries) ==
    /\ pc' = "menu"
    /\ Emit(entries \o <<MenuPrompt>>)

\* a faulty AskReturns: the loop of ask_user spins without a prompt
AskSpins(entries) ==
    /\ pc' = "spinning"
    /\ Emit(entries)

\* zip(...) is exhausted: the loop of ask_user ends and ask_user returns
AskReturns(entries) == ToMenu(entries)

\* an exception nothing catches ends the process
Raise(entries) ==
    /\ pc' = "crashed"
    /\ Emit(entries)

\* the locals of ask_user are gone when the next command runs
NoAsk ==
    /\ number_of_times' = 0
    /\ rounds' = 0
    /\ cycle_pos' = 0

\* main_menu has read one more command (commands counts them for the bound)
OneMore ==
    /\ commands < MaxCommands
    /\ commands' = commands + 1

(***************************************************************************)
(* A history variable: tally[i] tells of the card store[i] whether no      *)
(* import has written it since it was added (clean) and, when so, how      *)
(* often the program has called an answer to it wrong since the later of   *)
(* its add and the last reset of the statistics.  It is kept from what the *)
(* program reports, not from the store.                                    *)
(***************************************************************************)
Clean(wrong) == [clean |-> TRUE, wrong |-> wrong]

Written == [clean |-> FALSE, wrong |-> 0]

\* the records the loop of import_file gets through: all of them, or the
\* ones before the record that makes int raise
Applied(rows) ==
    LET bad == {i \in 1..Len(rows) : Len(rows[i]) < 3 \/ ~IntOk(rows[i][3])}
    IN  IF bad = {} THEN rows
        ELSE SubSeq(rows, 1, (CHOOSE i \in bad : \A j \in bad : i <= j) - 1)

\* the terms an import of the file writes
WrittenTerms(fs, filename) ==
    IF CannotRead(fs, filename) THEN {}
    ELSE LET rows == Applied(FileRows(fs[filename].data))
         IN  {rows[i][1] : i \in 1..Len(rows)}

\* the tally after an import: the written cards are no longer clean
TallyImport(written) ==
    [i \in 1..Len(store') |->
       IF store'[i].term \in written THEN Written ELSE tally[i]]

\* the report of the step, after the response
Reported(kind) == Len(emitted') >= 2 /\ emitted'[2].kind = kind

\* the step from this state to the next, as the tally sees it
Tallied ==
    tally' =
      IF pc = "start"
      THEN TallyImport(IF Truthy(import_from)
                       THEN WrittenTerms(files, import_from) ELSE {})
      ELSE IF pc = "import"
      THEN TallyImport(WrittenTerms(files, emitted'[1].args[1]))
      ELSE IF Reported("The pair has been added.")
      THEN Append(tally, Clean(0))
      ELSE IF Reported("The card has been removed.")
      THEN LET i == CHOOSE k \in 1..Len(store) :
                      store[k].term = emitted'[1].args[1]
           IN  SubSeq(tally, 1, i - 1) \o SubSeq(tally, i + 1, Len(tally))
      ELSE IF Reported("Card statistics have been reset.")
      THEN [i \in 1..Len(tally) |->
              IF tally[i].clean THEN Clean(0) ELSE tally[i]]
      ELSE IF Reported("Wrong. The right answer is")
      THEN LET i == CHOOSE k \in 1..Len(store) :
                      store[k].term = emitted[Len(emitted)].args[1]
           IN  IF tally[i].clean
               THEN [tally EXCEPT ![i] = Clean(tally[i].wrong + 1)]
               ELSE tally
      ELSE tally

\* Flashcards.__init__: the import of --import_from, then the first prompt
Startup ==
    /\ pc = "start"
    /\ LET r == IF Truthy(import_from)
                THEN import_file(store, files, import_from)
                ELSE [store |-> store, msgs |-> <<>>, raised |-> FALSE]
       IN  /\ store' = r.store
           /\ IF r.raised THEN Raise(r.msgs) ELSE ToMenu(r.msgs)
    /\ UNCHANGED <<with_log, commands, files, import_from, export_to, term,
                   number_of_times, rounds, cycle_pos, typed>>
    /\ Tallied

\* main_menu reads a command that prompts first: add, remove, import,
\* export, ask, log
Dispatch ==
    /\ pc = "menu"
    /\ \E line \in MenuLines :
         /\ typed' = line
         /\ LET user_input == Strip(line)
            IN  /\ user_input \in {CmdAdd, CmdRemove, CmdImport, CmdExport,
                                   CmdAsk, CmdLog}
                /\ pc' = IF user_input = CmdAdd THEN "add_term"
                         ELSE IF user_input = CmdRemove THEN "remove"
                         ELSE IF user_input = CmdImport THEN "import"
                         ELSE IF user_input = CmdExport THEN "export"
                         ELSE IF user_input = CmdAsk THEN "ask"
                         ELSE "log"
                /\ Emit(<<Response(user_input),
                          IF user_input = CmdAdd THEN Prompt("The card:", <<>>)
                          ELSE IF user_input = CmdRemove
                          THEN Prompt("Which card?", <<>>)
                          ELSE IF user_input = CmdAsk
                          THEN Prompt("How many times to ask?", <<>>)
                          ELSE Prompt("File name:", <<>>)>>)
    /\ NoAsk
    /\ OneMore
    /\ UNCHANGED <<with_log, store, files, import_from, export_to, term>>
    /\ Tallied

\* a faulty UnknownCommand: the line is read again without a report
UnknownCommandSilent ==
    /\ pc = "menu"
    /\ \E line \in MenuLines :
         /\ typed' = line
         /\ LET user_input == Strip(line)
            IN  /\ user_input \notin Commands
                /\ ToMenu(<<Response(user_input)>>)
    /\ NoAsk
    /\ OneMore
    /\ UNCHANGED <<with_log, store, files, import_from, export_to, term>>
    /\ Tallied

\* main_menu reads a line that is no command
UnknownCommand ==
    /\ pc = "menu"
    /\ \E line \in MenuLines :
         /\ typed' = line
         /\ LET user_input == Strip(line)
            IN  /\ user_input \notin Commands
                /\ ToMenu(<<Response(user_input),
                            Message("Unknown command!", <<>>, 0)>>)
    /\ NoAsk
    /\ OneMore
    /\ UNCHANGED <<with_log, store, files, import_from, export_to, term>>
    /\ Tallied

\* add_card, first prompt: check_input_for_duplicates("card", self.keys())
AddTerm ==
    /\ pc = "add_term"
    /\ \E line \in TextLines :
         /\ typed' = line
         /\ LET user_input == Strip(line)
            IN  IF InKeys(store, user_input)
                THEN /\ pc' = "add_term"
                     /\ term' = term
                     /\ Emit(<<Response(user_input),
                               Prompt("The card already exists. Try again:",
                                      <<user_input>>)>>)
                ELSE /\ pc' = "add_definition"
                     /\ term' = user_input
                     /\ Emit(<<Response(user_input),
                               Prompt("The definition of the card:", <<>>)>>)
    /\ UNCHANGED <<with_log, commands, store, files, import_from, export_to,
                   number_of_times, rounds, cycle_pos>>
    /\ Tallied

\* add_card, second prompt: check_input_for_duplicates("definition",
\* self.values()), then self[term] = Card(definition)
AddDefinition ==
    /\ pc = "add_definition"
    /\ \E line \in TextLines :
         /\ typed' = line
         /\ LET user_input == Strip(line)
            IN  IF InValues(store, user_input)
                THEN /\ pc' = "add_definition"
                     /\ store' = store
                     /\ term' = term
                     /\ Emit(<<Response(user_input),
                               Prompt("The definition already exists. Try again:",
                                      <<user_input>>)>>)
                ELSE /\ store' = SetItem(store, Card(term, user_input, 0))
                     /\ term' = <<>>
                     /\ ToMenu(<<Response(user_input),
                                 Message("The pair has been added.",
                                         <<term, user_input>>, 0)>>)
    /\ UNCHANGED <<with_log, commands, files, import_from, export_to,
                   number_of_times, rounds, cycle_pos>>
    /\ Tallied

\* remove_card
RemoveCard ==
    /\ pc = "remove"
    /\ \E line \in TextLines :
         /\ typed' = line
         /\ LET card_to_remove == Strip(line)
            IN  IF HasTerm(store, card_to_remove)
                THEN /\ store' = DelItem(store, card_to_remove)
                     /\ ToMenu(<<Response(card_to_remove),
                                 Message("The card has been removed.", <<>>, 0)>>)
                ELSE /\ store' = store
                     /\ ToMenu(<<Response(card_to_remove),
                                 Message("Can't remove: there is no such card.",
                                         <<card_to_remove>>, 0)>>)
    /\ UNCHANGED <<with_log, commands, files, import_from, export_to, term,
                   number_of_times, rounds, cycle_pos>>
    /\ Tallied

\* import_file() of the import command
ImportFile ==
    /\ pc = "import"
    /\ \E line \in FileLines :
         /\ typed' = line
         /\ LET filename == Strip(line)
                r == import_file(store, files, filename)
            IN  /\ store' = r.store
                /\ IF r.raised
                   THEN Raise(<<Response(filename)>> \o r.msgs)
                   ELSE ToMenu(<<Response(filename)>> \o r.msgs)
    /\ UNCHANGED <<with_log, commands, files, import_from, export_to, term,
                   number_of_times, rounds, cycle_pos>>
    /\ Tallied

\* export_file() of the export command
ExportFile ==
    /\ pc = "export"
    /\ \E line \in FileLines :
         /\ typed' = line
         /\ LET filename == Strip(line)
            IN  IF CannotWrite(files, filename)
                THEN /\ files' = files
                     /\ Raise(<<Response(filename)>>)
                ELSE LET r == export_file(store, files, filename)
                     IN  /\ files' = r.files
                         /\ ToMenu(<<Response(filename)>> \o r.msgs)
    /\ UNCHANGED <<with_log, commands, store, import_from, export_to, term,
                   number_of_times, rounds, cycle_pos>>
    /\ Tallied

\* ask_user up to its first round: int() of the response, then the first
\* pull on zip(range(number_of_times), itertools.cycle(self))
AskCount ==
    /\ pc = "ask"
    /\ \E line \in AskLines :
         /\ typed' = line
         /\ LET user_input == Strip(line)
            IN  IF ~IntOk(user_input)
                THEN /\ Raise(<<Response(user_input)>>)
                     /\ UNCHANGED <<number_of_times, rounds, cycle_pos>>
                ELSE /\ number_of_times' = IntOf(user_input)
                     /\ rounds' = 0
                     /\ IF FirstPair(IntOf(user_input), store)
                        THEN /\ cycle_pos' = 1
                             /\ pc' = "ask_round"
                             /\ Emit(<<Response(user_input),
                                       AskPrompt(store, 1)>>)
                        ELSE /\ cycle_pos' = 0
                             /\ AskReturns(<<Response(user_input)>>)
    /\ UNCHANGED <<with_log, commands, store, files, import_from, export_to,
                   term>>
    /\ Tallied

\* one round of ask_user: the answer is scored, then zip is pulled again
AskRound ==
    /\ pc = "ask_round"
    /\ \E line \in TextLines :
         /\ typed' = line
         /\ LET answer == Strip(line)
                correct == IsCorrect(store, cycle_pos, answer)
                next == CycleNext(cycle_pos, Len(store))
            IN  /\ correct \/ store[cycle_pos].error_count < MaxErr
                /\ store' = IF correct THEN store
                            ELSE CountError(store, cycle_pos)
                /\ rounds' = rounds + 1
                /\ IF rounds + 1 < number_of_times
                   THEN /\ cycle_pos' = next
                        /\ pc' = "ask_round"
                        /\ Emit(<<Response(answer)>>
                                \o RoundMessages(store', cycle_pos, answer)
                                \o <<AskPrompt(store', next)>>)
                   ELSE /\ cycle_pos' = cycle_pos
                        /\ AskReturns(<<Response(answer)>>
                                      \o RoundMessages(store', cycle_pos,
                                                       answer))
    /\ UNCHANGED <<with_log, commands, files, import_from, export_to, term,
                   number_of_times>>
    /\ Tallied

\* save_log of the log command
SaveLog ==
    /\ pc = "log"
    /\ \E line \in FileLines :
         /\ typed' = line
         /\ LET filename == Strip(line)
            IN  IF CannotWrite(files, filename)
                THEN /\ files' = files
                     /\ Raise(<<Response(filename)>>)
                ELSE LET r == save_log(output \o <<Response(filename)>>,
                                       files, filename)
                     IN  /\ files' = r.files
                         /\ ToMenu(<<Response(filename)>> \o r.msgs)
    /\ UNCHANGED <<with_log, commands, store, import_from, export_to, term,
                   number_of_times, rounds, cycle_pos>>
    /\ Tallied

\* a faulty HardestCard: the statistics are reset after the report
HardestCardResets ==
    /\ pc = "menu"
    /\ \E line \in MenuLines :
         /\ typed' = line
         /\ Strip(line) = CmdHardest
         /\ ToMenu(<<Response(Strip(line)), hardest_card(store)>>)
    /\ store' = reset_stats(store)
    /\ NoAsk
    /\ OneMore
    /\ UNCHANGED <<with_log, files, import_from, export_to, term>>
    /\ Tallied

\* main_menu reads "hardest card"
HardestCard ==
    /\ pc = "menu"
    /\ \E line \in MenuLines :
         /\ typed' = line
         /\ Strip(line) = CmdHardest
         /\ ToMenu(<<Response(Strip(line)), hardest_card(store)>>)
    /\ NoAsk
    /\ OneMore
    /\ UNCHANGED <<with_log, store, files, import_from, export_to, term>>
    /\ Tallied

\* main_menu reads "reset stats"
ResetStats ==
    /\ pc = "menu"
    /\ \E line \in MenuLines :
         /\ typed' = line
         /\ Strip(line) = CmdReset
         /\ ToMenu(<<Response(Strip(line)),
                     Message("Card statistics have been reset.", <<>>, 0)>>)
    /\ store' = reset_stats(store)
    /\ NoAsk
    /\ OneMore
    /\ UNCHANGED <<with_log, files, import_from, export_to, term>>
    /\ Tallied

\* main_menu reads "exit": the farewell, the export to --export_to, exit()
Exit ==
    /\ pc = "menu"
    /\ \E line \in MenuLines :
         /\ typed' = line
         /\ Strip(line) = CmdExit
         /\ LET bye == <<Response(Strip(line)), Message("Bye bye!", <<>>, 0)>>
            IN  IF Truthy(export_to)
                THEN LET r == export_file(store, files, export_to)
                     IN  /\ files' = r.files
                         /\ Emit(bye \o r.msgs)
                ELSE /\ files' = files
                     /\ Emit(bye)
    /\ pc' = "exited"
    /\ NoAsk
    /\ UNCHANGED <<with_log, commands, store, import_from, export_to, term>>
    /\ Tallied

Next ==
    \/ Startup
    \/ Dispatch
    \/ UnknownCommand
    \/ AddTerm
    \/ AddDefinition
    \/ RemoveCard
    \/ ImportFile
    \/ ExportFile
    \/ AskCount
    \/ AskRound
    \/ HardestCard
    \/ ResetStats
    \/ Exit

\* the runs whose user never gives the log command
Spec == Init /\ [][Next]_vars

\* the runs with no import: no --import_from, and import_file never runs
InitNoImport == Init /\ import_from = <<>>

NextNoImport ==
    \/ Startup
    \/ Dispatch
    \/ UnknownCommand
    \/ AddTerm
    \/ AddDefinition
    \/ RemoveCard
    \/ ExportFile
    \/ AskCount
    \/ AskRound
    \/ HardestCard
    \/ ResetStats
    \/ Exit

SpecNoImport == InitNoImport /\ [][NextNoImport]_vars

\* the runs whose user may give the log command: the transcript is kept
InitLog ==
    /\ store = <<>>
    /\ files \in [FileNames -> {NoFile, FileOf(FileCards)}]
    /\ import_from \in {<<>>, <<"f">>}
    /\ export_to \in {<<>>, <<"f">>}
    /\ pc = "start"
    /\ term = <<>>
    /\ number_of_times = 0
    /\ rounds = 0
    /\ cycle_pos = 0
    /\ emitted = <<>>
    /\ commands = 0
    /\ typed = <<>>
    /\ output = <<>>
    /\ with_log = TRUE
    /\ tally = <<>>

NextLog ==
    \/ Startup
    \/ Dispatch
    \/ UnknownCommand
    \/ AddTerm
    \/ AddDefinition
    \/ RemoveCard
    \/ ImportFile
    \/ ExportFile
    \/ AskCount
    \/ AskRound
    \/ SaveLog
    \/ HardestCard
    \/ ResetStats
    \/ Exit

SpecLog == InitLog /\ [][NextLog]_vars

\* the runs in which every record a file holds at the start carries a
\* non-negative error count
InitNonNegative ==
    /\ Init
    /\ \A name \in FileNames :
         LET rows == FileRows(files[name].data)
         IN  \A i \in 1..Len(rows) :
                 (Len(rows[i]) >= 3 /\ IntOk(rows[i][3]))
                 => IntOf(rows[i][3]) >= 0

SpecNonNegative == InitNonNegative /\ [][Next]_vars

(***************************************************************************)
(* Properties.                                                             *)
(***************************************************************************)
\* the stripped line the last step read
Supplied == emitted[1].args[1]

\* the terms of a store, in order
TermsOf(s) == [i \in 1..Len(s) |-> s[i].term]

IsKey(s, t) == \E i \in 1..Len(s) : s[i].term = t

\* the step from this state to the next adds a card
AddSucceeds == pc = "add_definition" /\ pc' = "menu"

----------------------------------------------------------------------------
\* C1: during add, a term that is already a key of the store is rejected:
\* the same prompt position is kept, the "already exists" prompt is issued
\* and the store is unchanged.  So an add of t succeeds only on a store
\* that has no t, leaves t in the store, and only remove takes t out again:
\* two adds of t with no remove of t between them never both succeed.
C1_DuplicateTermRejected ==
    [][/\ (pc = "add_term" /\ IsKey(store, Supplied'))
          => /\ pc' = "add_term"
             /\ store' = store
             /\ emitted'[2] = Prompt("The card already exists. Try again:",
                                     <<Supplied'>>)
       /\ AddSucceeds => ~IsKey(store, term) /\ IsKey(store', term)
       /\ \A i \in 1..Len(store) :
            ~IsKey(store', store[i].term)
            => pc = "remove" /\ Supplied' = store[i].term]_vars

\* a known term has just been rejected by add
C1_Witness ==
    /\ pc = "add_term"
    /\ Len(emitted) = 2
    /\ emitted[2].kind = "The card already exists. Try again:"
    /\ IsKey(store, Supplied)
    /\ Len(store) >= 2

----------------------------------------------------------------------------
\* C2: add rejects a definition that a card of the store has, so without
\* any import no two cards of the store have the same definition.
C2_DefinitionsDistinct ==
    \A i, j \in 1..Len(store) :
        i # j => store[i].definition # store[j].definition

\* a definition that another card has was just rejected by add
C2_Witness ==
    /\ pc = "add_definition"
    /\ Len(emitted) = 2
    /\ emitted[2].kind = "The definition already exists. Try again:"
    /\ Len(store) >= 2
    /\ store[1].definition = Supplied

----------------------------------------------------------------------------
\* C3: a successful add of (t, d) appends t with definition d and
\* error_count 0 at the end of the store and changes no other card.
C3_AddAppends ==
    [][AddSucceeds
       => store' = Append(store, [term |-> term, definition |-> Supplied',
                                  error_count |-> 0])]_vars

\* the term "a", imported at startup with one error, was removed and then
\* added again: it is the last card and has no errors
C3_Witness ==
    /\ pc = "menu"
    /\ import_from = <<"f">>
    /\ files[<<"f">>] = FileOf(FileCards)
    /\ commands = 2
    /\ Len(emitted) = 3
    /\ emitted[2].kind = "The pair has been added."
    /\ emitted[2].args[1] = <<"a">>
    /\ Len(store) = 3
    /\ store[3].term = <<"a">>
    /\ store[3].error_count = 0
    /\ store[2].error_count = 0
    /\ store[1].error_count = 2

----------------------------------------------------------------------------
\* C4: remove of a term that is no key reports it, leaves the store as it
\* was and returns to the menu; remove of a key deletes that card only and
\* keeps the others in their order.
C4_Remove ==
    [][pc = "remove"
       => /\ pc' = "menu"
          /\ emitted'[Len(emitted')] = MenuPrompt
          /\ IF IsKey(store, Supplied')
             THEN /\ store' = SelectSeq(store,
                                 LAMBDA c : c.term # Supplied')
                  /\ Len(store') = Len(store) - 1
                  /\ emitted'[2].kind = "The card has been removed."
             ELSE /\ store' = store
                  /\ emitted'[2] =
                       Message("Can't remove: there is no such card.",
                               <<Supplied'>>, 0)]_vars

\* remove has just reported a term that is no key of a store with cards
C4_Witness ==
    /\ pc = "menu"
    /\ Len(emitted) = 3
    /\ emitted[2].kind = "Can't remove: there is no such card."
    /\ Len(store) >= 2
    /\ ~IsKey(store, Supplied)

----------------------------------------------------------------------------
----------------------------------------------------------------------------
\* the term the pending quiz prompt names
AskedTerm == emitted[Len(emitted)].args[1]

\* the position of the card the pending quiz prompt names
AskedPos == CHOOSE i \in 1..Len(store) : store[i].term = AskedTerm

\* the rounds are asked in store order from the first term, again from
\* the first term after the last
RoundsInOrder ==
    pc = "ask_round"
    => /\ rounds < number_of_times
       /\ emitted[Len(emitted)].kind = "Print the definition of"
       /\ AskedTerm = store[(rounds % Len(store)) + 1].term

\* C6 as stated: ask(n), n >= 0, performs exactly n rounds on every store,
\* round i asking the term at position i mod k.
C6_AsStated ==
    /\ RoundsInOrder
    /\ (pc = "menu" /\ number_of_times >= 0) => rounds = number_of_times

\* C6 amended: ask(n), n >= 0, performs exactly n rounds on a store of
\* k >= 1 cards, round i asking the term at position i mod k, and no round
\* on the empty store.
C6_Rounds ==
    /\ RoundsInOrder
    /\ (pc = "menu" /\ number_of_times >= 0 /\ store # <<>>)
       => rounds = number_of_times
    /\ (pc = "menu" /\ store = <<>>) => rounds = 0

\* ask(3) has run its three rounds on a store of two cards
C6_Witness ==
    /\ pc = "menu"
    /\ number_of_times = 3
    /\ rounds = 3
    /\ Len(store) = 2

----------------------------------------------------------------------------
\* C7: on the empty store ask(n) runs no round for any integer n: no
\* definition prompt is issued, the store stays empty and the menu prompts
\* again.
C7_EmptyStoreNoRound ==
    [][(pc = "ask" /\ store = <<>> /\ IntOk(Supplied'))
       => /\ pc' = "menu"
          /\ store' = <<>>
          /\ rounds' = 0
          /\ emitted' = <<Response(Supplied'), MenuPrompt>>]_vars

\* ask(2) has returned to the menu on the empty store
C7_Witness ==
    /\ pc = "menu"
    /\ store = <<>>
    /\ number_of_times = 2
    /\ rounds = 0
    /\ emitted = <<Response(<<"2">>), MenuPrompt>>

----------------------------------------------------------------------------
\* C8: a round with the right answer changes no error_count; a round with
\* another answer adds 1 to the error_count of the asked card and changes
\* no other; no round changes a term, a definition or the order.
C8_RoundFrame ==
    [][pc = "ask_round"
       => /\ Len(store') = Len(store)
          /\ \A i \in 1..Len(store) :
               /\ store'[i].term = store[i].term
               /\ store'[i].definition = store[i].definition
               /\ store'[i].error_count =
                    IF i = AskedPos /\ Supplied' # store[i].definition
                    THEN store[i].error_count + 1
                    ELSE store[i].error_count]_vars

\* the second round of an ask has just been answered wrongly
C8_Witness ==
    /\ rounds = 2
    /\ Len(emitted) >= 3
    /\ emitted[2].kind = "Wrong. The right answer is"
    /\ Len(store) >= 2
    /\ store[2].error_count >= 1

----------------------------------------------------------------------------
Hint == ", but your definition is correct for"

\* the positions of the other cards the answer is right for
OthersRightFor(s, pos, answer) ==
    {i \in 1..Len(s) : i # pos /\ s[i].definition = answer}

\* C9: after a wrong answer the hint is there exactly when the answer is
\* the definition of another card; it names the first such card in store
\* order, comes once, after the "Wrong" text and before the period.
C9_Hint ==
    [][(pc = "ask_round" /\ Supplied' # store[AskedPos].definition)
       => LET others == OthersRightFor(store, AskedPos, Supplied')
              first == CHOOSE i \in others : \A j \in others : i <= j
          IN  /\ emitted'[2] = MessagePart("Wrong. The right answer is",
                                           <<store[AskedPos].definition>>)
              /\ IF others = {}
                 THEN /\ emitted'[3] = Message(".", <<>>, 0)
                      /\ \A k \in 1..Len(emitted') : emitted'[k].kind # Hint
                 ELSE /\ emitted'[3] = MessagePart(Hint, <<store[first].term>>)
                      /\ emitted'[4] = Message(".", <<>>, 0)
                      /\ Cardinality({k \in 1..Len(emitted') :
                                        emitted'[k].kind = Hint}) = 1]_vars

\* a wrong answer that is right for two other cards has just been given
C9_Witness ==
    /\ Len(emitted) >= 4
    /\ emitted[2].kind = "Wrong. The right answer is"
    /\ emitted[3].kind = Hint
    /\ Cardinality({i \in 1..Len(store) : store[i].definition = Supplied}) = 2

----------------------------------------------------------------------------
\* the hardest card command has just run
HardestReported ==
    /\ pc = "menu"
    /\ Len(emitted) = 3
    /\ emitted[1] = Response(CmdHardest)

Counts == {store[i].error_count : i \in 1..Len(store)}

Highest == CHOOSE m \in Counts : \A n \in Counts : n <= m

\* the terms with the highest count are reported in store order, in the
\* singular for one term and in the plural for more
HighestReported ==
    /\ emitted[2].args =
         SelectSeq(TermsOf(store),
                   LAMBDA t : \E i \in 1..Len(store) :
                                 /\ store[i].term = t
                                 /\ store[i].error_count = Highest)
    /\ emitted[2].num = Highest
    /\ emitted[2].kind = IF Len(emitted[2].args) = 1
                         THEN "The hardest card is"
                         ELSE "The hardest cards are"

\* C10 as stated: no cards with errors is reported when the store is empty
\* or every error_count is 0, and the terms with the highest count otherwise.
C10_AsStated ==
    HardestReported
    => IF store = <<>> \/ \A i \in 1..Len(store) : store[i].error_count = 0
       THEN emitted[2].kind = "There are no cards with errors."
       ELSE HighestReported

\* C10 amended: no cards with errors is reported when the store is empty or
\* the highest error_count is 0, and the terms with the highest count
\* otherwise.
C10_Hardest ==
    HardestReported
    => IF store = <<>> \/ Highest = 0
       THEN emitted[2].kind = "There are no cards with errors."
       ELSE HighestReported

\* two of three cards share the highest count and have just been reported
C10_Witness ==
    /\ HardestReported
    /\ emitted[2].kind = "The hardest cards are"
    /\ Len(emitted[2].args) = 2
    /\ Len(store) = 3

----------------------------------------------------------------------------
\* C11: reset stats sets the error_count of every card of the store to 0
\* and leaves the terms, the definitions and the order as they are; it is
\* idempotent: a reset stats right after a reset stats leaves the store as
\* the first one left it.
C11_ResetStats ==
    [][(pc = "menu" /\ Supplied' = CmdReset)
       => /\ Len(store') = Len(store)
          /\ \A i \in 1..Len(store) :
               /\ store'[i].term = store[i].term
               /\ store'[i].definition = store[i].definition
               /\ store'[i].error_count = 0
          /\ emitted[1] = Response(CmdReset) => store' = store]_vars

\* reset stats has just run on the three cards imported at startup, two of
\* which had errors
C11_Witness ==
    /\ pc = "menu"
    /\ emitted[1] = Response(CmdReset)
    /\ import_from = <<"f">>
    /\ files[<<"f">>] = FileOf(FileCards)
    /\ commands = 1
    /\ Len(store) = 3
    /\ \A i \in 1..3 : store[i].error_count = 0

----------------------------------------------------------------------------
\* the nine literals of the command vocabulary
Literals ==
    {Chars("add"), Chars("remove"), Chars("import"), Chars("export"),
     Chars("ask"), Chars("exit"), Chars("log"), Chars("hardest card"),
     Chars("reset stats")}

\* the line is the literal with nothing but whitespace before and after it
Padded(line, lit) ==
    \E n \in 0..Len(line) :
        /\ n + Len(lit) <= Len(line)
        /\ SubSeq(line, n + 1, n + Len(lit)) = lit
        /\ \A i \in 1..n : line[i] \in Whitespace
        /\ \A i \in (n + Len(lit) + 1)..Len(line) : line[i] \in Whitespace

\* the dispatcher reports an unknown command, runs no operation and prompts
\* for a command again
ReportsUnknown ==
    /\ pc' = "menu"
    /\ store' = store
    /\ files' = files
    /\ Len(emitted') = 3
    /\ emitted'[2] = Message("Unknown command!", <<>>, 0)
    /\ emitted'[3] = MenuPrompt

\* C12 as stated: a line at the command prompt that is not exactly one of
\* the nine literals is reported as an unknown command.
C12_AsStated ==
    [][(pc = "menu" /\ typed' \notin Literals) => ReportsUnknown]_vars

\* C12 amended: a line at the command prompt that, with the whitespace at
\* its ends removed, is not exactly (case-sensitive) one of the nine
\* literals is reported as an unknown command: the store is unchanged, no
\* operation runs and the command prompt comes again.
C12_UnknownCommand ==
    [][(pc = "menu" /\ ~\E lit \in Literals : Padded(typed', lit))
       => ReportsUnknown]_vars

\* a literal in the wrong case has just been reported as unknown, on a
\* store with cards
C12_Witness ==
    /\ pc = "menu"
    /\ typed = <<"A", "d", "d">>
    /\ Len(emitted) = 3
    /\ emitted[2].kind = "Unknown command!"
    /\ Len(store) = 3

----------------------------------------------------------------------------
\* the records of a store, as a file holds them
RecordsOf(s) ==
    [i \in 1..Len(s) |->
       <<s[i].term, s[i].definition, IntStr(s[i].error_count)>>]

\* C13: exit emits "Bye bye!"; exactly when an export destination was
\* configured at startup it then writes the entries of the store as they
\* are, in iteration order, to that destination; then the process ends:
\* after exit no command is read and neither the store nor a file changes.
C13_Exit ==
    [][/\ (pc = "menu" /\ Supplied' = CmdExit)
          => /\ pc' = "exited"
             /\ emitted'[2] = Message("Bye bye!", <<>>, 0)
             /\ store' = store
             /\ IF export_to # <<>>
                THEN /\ files'[export_to].exists
                     /\ FileRows(files'[export_to].data) = RecordsOf(store)
                     /\ \A name \in DOMAIN files \ {export_to} :
                          files'[name] = files[name]
                ELSE files' = files
       /\ pc # "exited"]_vars

\* exit has just written the two cards of the store to the configured
\* destination
C13_Witness ==
    /\ pc = "exited"
    /\ export_to = <<"f">>
    /\ emitted[2].kind = "Bye bye!"
    /\ Len(store) = 2
    /\ files[<<"f">>] = FileOf(WriteRows(store))

----------------------------------------------------------------------------
\* the step reports something to the user and prompts for a command
ReportsAndPrompts ==
    /\ pc' = "menu"
    /\ Len(emitted') >= 2
    /\ emitted'[Len(emitted')] = MenuPrompt
    /\ \E k \in 1..(Len(emitted') - 1) : emitted'[k].kind # "input"

\* C14: the import of a file that cannot be parsed (an error count that is
\* no integer, a record of fewer than three fields) or of a missing file is
\* recoverable: it is reported to the user, the process goes on and the
\* command prompt comes next.
C14_ImportRecoverable ==
    [][(pc = "import" \/ (pc = "start" /\ import_from # <<>>))
       => ReportsAndPrompts]_vars

----------------------------------------------------------------------------
\* the prompts of get_user_input
PromptKinds ==
    {"Input the action", "The card:", "The definition of the card:",
     "The card already exists. Try again:",
     "The definition already exists. Try again:", "Which card?",
     "File name:", "How many times to ask?", "Print the definition of"}

\* in a transcript the entry after a prompt is the response to it and every
\* response comes after a prompt; the last entry may be a prompt that waits
PromptsAnswered(out) ==
    /\ out # <<>> => out[1].kind # "input"
    /\ \A i \in 1..(Len(out) - 1) :
         out[i].kind \in PromptKinds <=> out[i + 1].kind = "input"

\* C15: the transcript is append-only and in the order of the events: after
\* every step it is the transcript before the step with the entries of the
\* step appended, every message and prompt the step emits is among them in
\* the order of emission, and every prompt is followed at once by the
\* response given to it (as get_user_input returns it).
C15_Transcript ==
    [][/\ Len(output') >= Len(output)
       /\ SubSeq(output', 1, Len(output)) = output
       /\ SubSeq(output', Len(output) + 1, Len(output')) = emitted'
       /\ PromptsAnswered(output')
       /\ pc # "start"
          => /\ output[Len(output)].kind \in PromptKinds
             /\ output'[Len(output) + 1] = Response(Strip(typed'))]_vars

\* a quiz round with a wrong answer and its hint is in the transcript, after
\* the report of the import at startup
C15_Witness ==
    /\ with_log
    /\ pc = "menu"
    /\ Len(output) >= 11
    /\ output[1].kind = "cards have been loaded."
    /\ \E i \in 2..(Len(output) - 2) :
         /\ output[i - 1].kind = "input"
         /\ output[i].kind = "Wrong. The right answer is"
         /\ output[i + 1].kind = Hint
         /\ output[i + 2].kind = "."

----------------------------------------------------------------------------
Saved == "The log has been saved."

\* the number of confirmations of a log in a transcript
SavedIn(out) == Cardinality({i \in 1..Len(out) : out[i].kind = Saved})

\* s ends with t
EndsWith(s, t) ==
    Len(t) <= Len(s) /\ SubSeq(s, Len(s) - Len(t) + 1, Len(s)) = t

\* C16: the file the log command writes is the whole transcript from the
\* start of the process to the moment of the write, in order, with the
\* "File name:" prompt of this log command and the response to it at its
\* end; the confirmation "The log has been saved." enters the transcript
\* after the write, so the file has the confirmations of the earlier log
\* commands and not the one of this command.
C16_LogFile ==
    [][(pc = "log" /\ pc' = "menu")
       => LET written == output \o <<Response(Supplied')>>
              data == files'[Supplied'].data
          IN  /\ data = getvalue(written)
              /\ EndsWith(data, Chars("File name:") \o <<LF>> \o Supplied'
                                \o <<LF>>)
              /\ output' = written \o <<Message(Saved, <<>>, 0), MenuPrompt>>
              /\ SavedIn(written) = SavedIn(output') - 1]_vars

\* the second log of a run has just been written: the file has the
\* confirmation of the first log and not its own
C16_Witness ==
    /\ with_log
    /\ pc = "menu"
    /\ Len(emitted) = 3
    /\ emitted[2].kind = Saved
    /\ SavedIn(output) = 2
    /\ files[<<"f">>].data = getvalue(SubSeq(output, 1, Len(output) - 2))
    /\ EndsWith(files[<<"f">>].data, <<"f", LF>>)

----------------------------------------------------------------------------
\* C17: when every record read by import carries a non-negative error
\* count, the error_count of every card is a non-negative integer in every
\* reachable state.
C17_NonNegative ==
    \A i \in 1..Len(store) : store[i].error_count \in Nat

\* the first of the three cards imported at startup, read with one error,
\* has just been answered wrongly
C17_Witness ==
    /\ pc = "menu"
    /\ import_from = <<"f">>
    /\ files[<<"f">>] = FileOf(FileCards)
    /\ commands = 1
    /\ rounds = 1
    /\ emitted[2].kind = "Wrong. The right answer is"
    /\ Len(store) = 3
    /\ store[1].error_count = 2

----------------------------------------------------------------------------
\* the last of the records with the term
LastRecord(rows, t) ==
    rows[CHOOSE i \in 1..Len(rows) :
           /\ rows[i][1] = t
           /\ \A j \in (i + 1)..Len(rows) : rows[j][1] # t]

\* the terms of the records that are no keys of the store, each once, in
\* the order of their first records
NewTerms(s, rows) ==
    LET first == SelectSeq([i \in 1..Len(rows) |-> i],
                           LAMBDA i : /\ ~IsKey(s, rows[i][1])
                                      /\ \A j \in 1..(i - 1) :
                                           rows[j][1] # rows[i][1])
    IN  [k \in 1..Len(first) |-> rows[first[k]][1]]

\* an import that reports its count: the file it read and the report
LoadedFrom == IF pc = "start" THEN import_from ELSE Supplied'

LoadedReport == IF pc = "start" THEN emitted'[1] ELSE emitted'[2]

\* C18: import applies the records of the file in order, the last one
\* winning: afterwards every term of the records has the definition and the
\* error_count of the last record with that term, a card stored under such
\* a term before keeps its place, the new terms follow in the order of
\* their first records, every other card is unchanged, and the count
\* reported is the number of records read.
C18_Import ==
    [][(/\ pc = "import" \/ (pc = "start" /\ import_from # <<>>)
        /\ pc' = "menu"
        /\ LoadedReport.kind = "cards have been loaded.")
       => LET rows == FileRows(files[LoadedFrom].data)
          IN  /\ TermsOf(store') = TermsOf(store) \o NewTerms(store, rows)
              /\ \A i \in 1..Len(store') :
                   IF \E k \in 1..Len(rows) : rows[k][1] = store'[i].term
                   THEN LET last == LastRecord(rows, store'[i].term)
                        IN  /\ store'[i].definition = last[2]
                            /\ store'[i].error_count = IntOf(last[3])
                   ELSE store'[i] = store[i]
              /\ LoadedReport.num = Len(rows)]_vars

\* the import command has just read the four records of the file into the
\* three cards they came from, whose statistics had been reset: the card
\* "a" is first again and has the count of its last record
C18_Witness ==
    /\ pc = "menu"
    /\ import_from = <<"f">>
    /\ files[<<"f">>] = FileOf(FileCards)
    /\ commands = 2
    /\ emitted[1] = Response(<<"f">>)
    /\ emitted[2] = Message("cards have been loaded.", <<>>, 4)
    /\ TermsOf(store) = <<<<"a">>, <<>>, <<QUOTE, COMMA>>>>
    /\ store[1].definition = <<>>
    /\ store[1].error_count = 1

----------------------------------------------------------------------------
\* C19: a card that no import has written since it was added has as its
\* error_count the number of quiz rounds in which its term was asked and
\* the answer was called wrong since the later of its add and the last
\* reset stats; and only a quiz round on a card, reset stats and import
\* change the error_count of a card that stays in the store.
C19_CountsWrongAnswers ==
    /\ [](/\ Len(tally) = Len(store)
          /\ \A i \in 1..Len(store) :
               tally[i].clean => store[i].error_count = tally[i].wrong)
    /\ [][\A i \in 1..Len(store), j \in 1..Len(store') :
            (/\ store[i].term = store'[j].term
             /\ store[i].error_count # store'[j].error_count)
            => \/ pc \in {"start", "import"}
               \/ pc = "menu" /\ Supplied' = CmdReset
               \/ /\ pc = "ask_round"
                  /\ store[i].term = AskedTerm
                  /\ Reported("Wrong. The right answer is")
                  /\ store'[j].error_count = store[i].error_count + 1]_vars

\* a card added in this run has been answered wrongly twice, beside a card
\* an import has written
C19_Witness ==
    /\ Len(store) >= 2
    /\ ~tally[1].clean
    /\ \E i \in 2..Len(store) :
         /\ tally[i].clean
         /\ tally[i].wrong = 2
         /\ store[i].error_count = 2

----------------------------------------------------------------------------
\* C20: the commands hardest card, export and log do not write the store:
\* in every step of theirs, from the command line to the report, the terms,
\* the definitions and the error counts are as they were, in the same order.
C20_ReadOnly ==
    [][(\/ pc = "menu" /\ Supplied' \in {CmdHardest, CmdExport, CmdLog}
        \/ pc \in {"export", "log"})
       => /\ TermsOf(store') = TermsOf(store)
          /\ \A i \in 1..Len(store) :
               /\ store'[i].definition = store[i].definition
               /\ store'[i].error_count = store[i].error_count]_vars

\* the log has just been written while the store holds the three cards
\* imported at startup, with their errors
C20_Witness ==
    /\ with_log
    /\ pc = "menu"
    /\ Len(emitted) = 3
    /\ emitted[2].kind = Saved
    /\ Len(store) = 3
    /\ store[2].error_count = 2
    /\ SavedIn(output) = 1

====
